---- MODULE Spec2Model ----
(***************************************************************************)
(* Escrow program (src/src/processor.rs, src/src/instruction.rs,           *)
(* src/src/error.rs) as a state machine over the ledger's accounts.        *)
(*                                                                         *)
(* An account is [owner, lamports, data]; data is a tagged record:         *)
(*   kind "wallet"    zero-length data of a system account                 *)
(*   kind "empty"     zero-length data left by `*data = &mut []`           *)
(*   kind "token"     an initialized spl_token::state::Account             *)
(*   kind "tokenZero" a zeroed (closed) token account                      *)
(*   kind "escrow"    Escrow::LEN bytes holding an Escrow record           *)
(*                                                                         *)
(* Each handler is computed on a working copy of the accounts, statement   *)
(* by statement, and yields [res, acc].  The ledger keeps the working copy *)
(* only when res = "Ok", as the host runtime does with a ProgramResult.    *)
(* The handler's own writes to lamports and data take effect as written;   *)
(* the sub-calls follow the token service's transfer, set-authority and    *)
(* close-account rules.                                                    *)
(*                                                                         *)
(* Ghost variables: pre is the ledger before the last instruction, last    *)
(* its name, account list and result, closes the number of Exchange or     *)
(* Cancel instructions that returned Ok per record storage.                *)
(*                                                                         *)
(* Spec is the ledger under the three instructions, taken as decoded.      *)
(* DecodeSpec is the decoding of instruction data: input is the byte       *)
(* string handed to EscrowInstruction::unpack, instruction its result.     *)
(* ForgedSpec is the ledger with an account of another program that holds  *)
(* the bytes of a record; AliasSpec the ledger in which an escrow account  *)
(* and a token account also sign and hold token accounts.                  *)
(***************************************************************************)
EXTENDS Integers, FiniteSets, Sequences, TLC

\* ------------------------------------------------------------- bounds
\* largest instruction amount the callers submit
MaxAmount == 1
\* u64::MAX scaled to the model's integers (checked_add overflows above it)
U64Max == 12
\* u8::MAX scaled: a byte of instruction data is in 0..MaxByte
MaxByte == 3
\* longest instruction data decoded: a tag, eight amount bytes, one byte more
MaxInputLen == 10

\* ------------------------------------------------------------- identities
TokenProgram == "spl_token"
SystemProgram == "system"
EscrowProgram == "escrow_program"
\* Pubkey::default(), the key held by a zeroed record
ZeroKey == "zero"
\* Pubkey::find_program_address(&[b"escrow"], program_id).0
PDA == "pda"

Wallets == {"alice", "bob"}
TokenAccounts == {"aliceX", "aliceY", "bobX", "bobY"}
EscrowAccounts == {"esc1", "esc2"}
Keys == Wallets \cup TokenAccounts \cup EscrowAccounts \cup {PDA}

Amounts == 0..MaxAmount

VARIABLES accounts, pre, last, closes, input, instruction
vars == <<accounts, pre, last, closes, input, instruction>>

\* ------------------------------------------------------------- account data
WalletData == [kind |-> "wallet"]
EmptyData == [kind |-> "empty"]
TokenZeroData == [kind |-> "tokenZero"]
TokenData(mint, owner, amount) ==
  [kind |-> "token", mint |-> mint, owner |-> owner, amount |-> amount]
EscrowData(init, initializer, temp, receive, amount) ==
  [kind |-> "escrow", is_initialized |-> init, initializer_pubkey |-> initializer,
   temp_token_account_pubkey |-> temp,
   initializer_token_to_receive_account_pubkey |-> receive,
   expected_amount |-> amount]
ZeroEscrowData == EscrowData(FALSE, ZeroKey, ZeroKey, ZeroKey, 0)

Account(owner, lamports, data) == [owner |-> owner, lamports |-> lamports, data |-> data]

Result(res, acc) == [res |-> res, acc |-> acc]

\* u64::checked_add: -1 stands for None
checked_add(a, b) == IF a + b > U64Max THEN -1 ELSE a + b

\* Rent::is_exempt(lamports, data_len), with the minimum balance scaled to
\* one lamport per account plus one for a record's bytes
DataLen(d) ==
  CASE d.kind = "escrow" -> 105
    [] d.kind \in {"token", "tokenZero"} -> 165
    [] OTHER -> 0
minimum_balance(len) == 1 + (len \div 100)
is_exempt(lamports, len) == lamports >= minimum_balance(len)

\* ------------------------------------------------------------- instruction data
\* u64::from_le_bytes of eight bytes, a byte being a digit in base MaxByte + 1
from_le_bytes(b) ==
  LET B == MaxByte + 1
  IN b[1] + B * (b[2] + B * (b[3] + B * (b[4] + B * (b[5] + B * (b[6]
       + B * (b[7] + B * b[8]))))))

\* the amount taken only from instruction data of exactly eight bytes
unpack_amount_exactly_eight(data) ==
  IF Len(data) /= 8 THEN [err |-> "InvalidInstruction"]
  ELSE [err |-> "Ok", v |-> from_le_bytes(SubSeq(data, 1, 8))]

\* EscrowInstruction::unpack_amount: input.get(..8), then from_le_bytes
unpack_amount(data) ==
  IF Len(data) < 8 THEN [err |-> "InvalidInstruction"]
  ELSE [err |-> "Ok", v |-> from_le_bytes(SubSeq(data, 1, 8))]

\* EscrowInstruction::unpack: split_first, then the match on the tag
unpack(data) ==
  IF data = <<>> THEN [err |-> "InvalidInstruction"]
  ELSE LET tag == Head(data)
           rest == Tail(data)
       IN CASE tag = 0 ->
                 IF unpack_amount(rest).err /= "Ok" THEN [err |-> unpack_amount(rest).err]
                 ELSE [err |-> "Ok", v |-> [tag |-> "InitEscrow", amount |-> unpack_amount(rest).v]]
            [] tag = 1 ->
                 IF unpack_amount(rest).err /= "Ok" THEN [err |-> unpack_amount(rest).err]
                 ELSE [err |-> "Ok", v |-> [tag |-> "Exchange", amount |-> unpack_amount(rest).v]]
            [] tag = 2 -> [err |-> "Ok", v |-> [tag |-> "Cancel"]]
            [] OTHER -> [err |-> "InvalidInstruction"]

\* ------------------------------------------------------------- Escrow record
\* Pack::unpack_unchecked for Escrow: the length check, then the fields
Escrow_unpack_unchecked(d) ==
  IF d.kind /= "escrow" THEN [err |-> "InvalidAccountData"]
  ELSE [err |-> "Ok", v |-> d]
\* Pack::unpack for Escrow: unpack_unchecked, then is_initialized
Escrow_unpack(d) ==
  IF d.kind /= "escrow" THEN [err |-> "InvalidAccountData"]
  ELSE IF ~d.is_initialized THEN [err |-> "UninitializedAccount"]
  ELSE [err |-> "Ok", v |-> d]

\* ------------------------------------------------------------- token service
\* TokenAccount::unpack: length, then the account's state
TokenAccount_unpack(d) ==
  IF d.kind = "token" THEN [err |-> "Ok", v |-> d]
  ELSE IF d.kind = "tokenZero" THEN [err |-> "UninitializedAccount"]
  ELSE [err |-> "InvalidAccountData"]

\* the token service can unpack and write an account only if it owns it
TokenUsable(acc, k) == acc[k].owner = TokenProgram /\ acc[k].data.kind = "token"

\* spl_token SetAuthority(AccountOwner)
spl_set_authority(acc, account, new_authority, owner, signed) ==
  IF ~TokenUsable(acc, account) THEN Result("InvalidAccountData", acc)
  ELSE IF acc[account].data.owner /= owner THEN Result("OwnerMismatch", acc)
  ELSE IF ~signed THEN Result("MissingRequiredSignature", acc)
  ELSE Result("Ok", [acc EXCEPT ![account].data.owner = new_authority])

\* spl_token Transfer
spl_transfer(acc, source, destination, authority, signed, amount) ==
  IF ~TokenUsable(acc, source) \/ ~TokenUsable(acc, destination)
  THEN Result("InvalidAccountData", acc)
  ELSE IF acc[source].data.amount < amount THEN Result("InsufficientFunds", acc)
  ELSE IF acc[source].data.mint /= acc[destination].data.mint
  THEN Result("MintMismatch", acc)
  ELSE IF acc[source].data.owner /= authority THEN Result("OwnerMismatch", acc)
  ELSE IF ~signed THEN Result("MissingRequiredSignature", acc)
  ELSE IF source = destination THEN Result("Ok", acc)
  ELSE IF checked_add(acc[destination].data.amount, amount) < 0
  THEN Result("Overflow", acc)
  ELSE Result("Ok", [acc EXCEPT ![source].data.amount = @ - amount,
                                ![destination].data.amount = @ + amount])

\* spl_token CloseAccount
spl_close_account(acc, account, destination, authority, signed) ==
  IF account = destination THEN Result("InvalidAccountData", acc)
  ELSE IF ~TokenUsable(acc, account) THEN Result("InvalidAccountData", acc)
  ELSE IF acc[account].data.amount /= 0 THEN Result("NonNativeHasBalance", acc)
  ELSE IF acc[account].data.owner /= authority THEN Result("OwnerMismatch", acc)
  ELSE IF ~signed THEN Result("MissingRequiredSignature", acc)
  ELSE IF checked_add(acc[destination].lamports, acc[account].lamports) < 0
  THEN Result("Overflow", acc)
  ELSE Result("Ok", [acc EXCEPT
         ![destination].lamports = @ + acc[account].lamports,
         ![account].lamports = 0,
         ![account].data = TokenZeroData])

\* ------------------------------------------------------------- processor
\* invoke_signed(ix, infos, &[&[b"escrow", &[bump_seed]]]): the instruction names
\* the derived identity as its authority; the host finds that account among the
\* infos handed over, and the seeds make it a signer
invoke_signed(pda_account_info, r, acc) ==
  IF pda_account_info /= PDA THEN Result("MissingAccount", acc) ELSE r

\* the record storage's lamports added to the main account modulo 2^64
close_escrow_wrapping(acc, initializers_main_account_info, escrow_account_info) ==
  LET sum == (acc[initializers_main_account_info].lamports + acc[escrow_account_info].lamports) % (U64Max + 1)
      a1 == [acc EXCEPT ![initializers_main_account_info].lamports = sum]
      a2 == [a1 EXCEPT ![escrow_account_info].lamports = 0]
      a3 == [a2 EXCEPT ![escrow_account_info].data = EmptyData]
  IN Result("Ok", a3)

\* the record storage zeroed in place: its lamports kept, its bytes reset to an
\* uninitialized record instead of cleared
close_escrow_zeroed_in_place(acc, initializers_main_account_info, escrow_account_info) ==
  Result("Ok", [acc EXCEPT ![escrow_account_info].data = ZeroEscrowData])

\* close_pda_and_escrow, "Closing the escrow account...": the record storage's
\* lamports go to the main account, the storage is zeroed and cleared
close_escrow(acc, initializers_main_account_info, escrow_account_info) ==
  LET sum == checked_add(acc[initializers_main_account_info].lamports,
                         acc[escrow_account_info].lamports)
  IN IF sum < 0 THEN Result("AmountOverflow", acc)
     ELSE LET a1 == [acc EXCEPT ![initializers_main_account_info].lamports = sum]
              a2 == [a1 EXCEPT ![escrow_account_info].lamports = 0]
              a3 == [a2 EXCEPT ![escrow_account_info].data = EmptyData]
          IN Result("Ok", a3)

\* close_pda_and_escrow returning Ok with neither the custody account closed nor
\* the record storage reclaimed
close_pda_and_escrow_nothing_closed(acc, pda_temp_token_account_info, initializers_main_account_info, pda_account_info, escrow_account_info) ==
  Result("Ok", acc)

\* Processor::close_pda_and_escrow
close_pda_and_escrow(acc, pda_temp_token_account_info, initializers_main_account_info, pda_account_info, escrow_account_info) ==
  LET closed == invoke_signed(pda_account_info,
                  spl_close_account(acc, pda_temp_token_account_info,
                                    initializers_main_account_info, PDA, TRUE),
                  acc)
  IN IF closed.res /= "Ok" THEN closed
     ELSE close_escrow(closed.acc, initializers_main_account_info, escrow_account_info)

\* the record written with the custody and payout references exchanged
init_escrow_info_swapped(a) ==
  EscrowData(TRUE, a.initializer, a.token_to_receive, a.temp_token, a.amount)

\* process_init_escrow: the record written to the storage
init_escrow_info(a) ==
  EscrowData(TRUE, a.initializer, a.temp_token, a.token_to_receive, a.amount)

\* the is_initialized check left out
check_not_initialized_skipped(escrow_info) == "Ok"

\* process_init_escrow: the storage must not hold an initialized record
check_not_initialized(escrow_info) ==
  IF escrow_info.is_initialized THEN "AccountAlreadyInitialized" ELSE "Ok"

\* the set_authority sub-call with its result dropped instead of propagated
owner_change_unchecked(acc, a) ==
  Result("Ok", spl_set_authority(acc, a.temp_token, PDA, a.initializer, a.is_signer).acc)

\* process_init_escrow: the set_authority sub-call, its failure propagated by `?`
owner_change(acc, a) ==
  spl_set_authority(acc, a.temp_token, PDA, a.initializer, a.is_signer)

\* Processor::process_init_escrow
process_init_escrow(acc, a) ==
  IF ~a.is_signer THEN Result("MissingRequiredSignature", acc)
  ELSE IF acc[a.token_to_receive].owner /= TokenProgram
  THEN Result("IncorrectProgramId", acc)
  ELSE IF TokenAccount_unpack(acc[a.token_to_receive].data).err /= "Ok"
  THEN Result(TokenAccount_unpack(acc[a.token_to_receive].data).err, acc)
  ELSE IF ~is_exempt(acc[a.escrow].lamports, DataLen(acc[a.escrow].data))
  THEN Result("NotRentExempt", acc)
  ELSE LET u == Escrow_unpack_unchecked(acc[a.escrow].data)
       IN IF u.err /= "Ok" THEN Result(u.err, acc)
          ELSE IF check_not_initialized(u.v) /= "Ok"
          THEN Result(check_not_initialized(u.v), acc)
          ELSE owner_change([acc EXCEPT ![a.escrow].data = init_escrow_info(a)], a)

\* the amount validation written as an upper limit instead of an equality
check_amount_at_most(amount_expected_by_taker, pda_temp_token_account) ==
  IF amount_expected_by_taker > pda_temp_token_account.amount
  THEN "ExpectedAmountMismatch" ELSE "Ok"

\* process_exchange: "Amount validation, prevent frontrunning"
check_amount(amount_expected_by_taker, pda_temp_token_account) ==
  IF amount_expected_by_taker /= pda_temp_token_account.amount
  THEN "ExpectedAmountMismatch" ELSE "Ok"

\* the validation without the comparison of the initializer's main account
exchange_matches_no_main(escrow, a) ==
  IF escrow.temp_token_account_pubkey /= a.pda_temp_token THEN "InvalidAccountData"
  ELSE IF escrow.initializer_token_to_receive_account_pubkey
            /= a.initializers_token_to_receive THEN "InvalidAccountData"
  ELSE "Ok"

\* process_exchange: "Validate Escrow matches instruction"
exchange_matches(escrow, a) ==
  IF escrow.temp_token_account_pubkey /= a.pda_temp_token THEN "InvalidAccountData"
  ELSE IF escrow.initializer_pubkey /= a.initializers_main THEN "InvalidAccountData"
  ELSE IF escrow.initializer_token_to_receive_account_pubkey
            /= a.initializers_token_to_receive THEN "InvalidAccountData"
  ELSE "Ok"

\* the taker's payment made in the instruction's amount instead of the record's
transfer_to_initializer_declared(acc, a, escrow) ==
  spl_transfer(acc, a.takers_sending, a.initializers_token_to_receive, a.taker,
               a.is_signer, a.amount)

\* process_exchange: the taker pays the initializer (invoke, the taker signs)
transfer_to_initializer(acc, a, escrow) ==
  spl_transfer(acc, a.takers_sending, a.initializers_token_to_receive, a.taker,
               a.is_signer, escrow.expected_amount)

\* process_exchange: the custody balance read before the sub-calls goes to the
\* taker (invoke_signed, the derived identity signs)
transfer_to_taker(acc, a, pda_temp_token_account) ==
  invoke_signed(a.pda_account,
    spl_transfer(acc, a.pda_temp_token, a.takers_token_to_receive, PDA, TRUE,
                 pda_temp_token_account.amount),
    acc)

\* Processor::process_exchange
process_exchange(acc, a) ==
  IF ~a.is_signer THEN Result("MissingRequiredSignature", acc)
  ELSE LET t == TokenAccount_unpack(acc[a.pda_temp_token].data)
       IN IF t.err /= "Ok" THEN Result(t.err, acc)
          ELSE IF check_amount(a.amount, t.v) /= "Ok"
          THEN Result(check_amount(a.amount, t.v), acc)
          ELSE LET e == Escrow_unpack(acc[a.escrow].data)
               IN IF e.err /= "Ok" THEN Result(e.err, acc)
                  ELSE IF exchange_matches(e.v, a) /= "Ok"
                  THEN Result(exchange_matches(e.v, a), acc)
                  ELSE LET r1 == transfer_to_initializer(acc, a, e.v)
                       IN IF r1.res /= "Ok" THEN r1
                          ELSE LET r2 == transfer_to_taker(r1.acc, a, t.v)
                               IN IF r2.res /= "Ok" THEN r2
                                  ELSE close_pda_and_escrow(r2.acc, a.pda_temp_token,
                                         a.initializers_main, a.pda_account, a.escrow)

\* process_cancel: "Validate Escrow matches instruction"
cancel_matches(escrow, a) ==
  IF escrow.temp_token_account_pubkey /= a.pda_temp_token THEN "InvalidAccountData"
  ELSE IF escrow.initializer_pubkey /= a.initializers_main THEN "InvalidAccountData"
  ELSE IF escrow.initializer_token_to_receive_account_pubkey /= a.initializer_token
  THEN "InvalidAccountData"
  ELSE "Ok"

\* process_cancel: "Close initializer_token_account, return rent fees"
close_initializer_token(acc, a) ==
  LET sum == checked_add(acc[a.initializers_main].lamports,
                         acc[a.initializer_token].lamports)
  IN IF sum < 0 THEN Result("AmountOverflow", acc)
     ELSE LET a1 == [acc EXCEPT ![a.initializers_main].lamports = sum]
              a2 == [a1 EXCEPT ![a.initializer_token].lamports = 0]
              a3 == [a2 EXCEPT ![a.initializer_token].data = EmptyData]
          IN Result("Ok", a3)

\* Processor::process_cancel
process_cancel(acc, a) ==
  IF ~a.is_signer THEN Result("MissingRequiredSignature", acc)
  ELSE IF acc[a.initializer_token].owner /= TokenProgram
  THEN Result("IncorrectProgramId", acc)
  ELSE LET e == Escrow_unpack_unchecked(acc[a.escrow].data)
       IN IF e.err /= "Ok" THEN Result(e.err, acc)
          ELSE IF ~e.v.is_initialized THEN Result("UninitializedAccount", acc)
          ELSE LET t == TokenAccount_unpack(acc[a.pda_temp_token].data)
               IN IF t.err /= "Ok" THEN Result(t.err, acc)
                  ELSE IF cancel_matches(e.v, a) /= "Ok"
                  THEN Result(cancel_matches(e.v, a), acc)
                  ELSE LET r1 == close_initializer_token(acc, a)
                       IN IF r1.res /= "Ok" THEN r1
                          ELSE close_pda_and_escrow(r1.acc, a.pda_temp_token,
                                 a.initializers_main, a.pda_account, a.escrow)

\* ------------------------------------------------------------- ledger
\* the account lists the callers submit (instruction.rs, "Accounts expected").
\* A handler returns at its signer check before it reads anything else, so one
\* unsigned account list per instruction stands for all of them.
InitEscrowArgs ==
  {a \in [initializer : Wallets, is_signer : BOOLEAN, temp_token : {"aliceX", "bobX"},
          token_to_receive : {"aliceY", "bobY", "aliceX", "alice"},
          escrow : EscrowAccounts, amount : Amounts] :
     a.is_signer \/ (a.initializer = "alice" /\ a.temp_token = "aliceX"
                     /\ a.token_to_receive = "aliceY" /\ a.escrow = "esc1"
                     /\ a.amount = MaxAmount)}
ExchangeArgs ==
  {a \in [taker : {"bob"}, is_signer : BOOLEAN, takers_sending : {"bobY", "aliceY"},
          takers_token_to_receive : {"bobX", "aliceX"},
          pda_temp_token : {"aliceX", "bobX"}, initializers_main : Wallets,
          initializers_token_to_receive : {"aliceY", "bobY", "aliceX"},
          escrow : EscrowAccounts, pda_account : {PDA}, amount : Amounts] :
     a.is_signer \/ (a.takers_sending = "bobY" /\ a.takers_token_to_receive = "bobX"
                     /\ a.pda_temp_token = "aliceX" /\ a.initializers_main = "alice"
                     /\ a.initializers_token_to_receive = "aliceY"
                     /\ a.escrow = "esc1" /\ a.amount = MaxAmount)}
CancelArgs ==
  {a \in [initializer : Wallets, is_signer : BOOLEAN,
          initializer_token : {"aliceY", "bobY", "aliceX", "alice"},
          escrow : EscrowAccounts, pda_temp_token : {"aliceX", "bobX"},
          initializers_main : Wallets, pda_account : {PDA, "bob"}] :
     a.is_signer \/ (a.initializer = "alice" /\ a.initializer_token = "aliceY"
                     /\ a.escrow = "esc1" /\ a.pda_temp_token = "aliceX"
                     /\ a.initializers_main = "alice" /\ a.pda_account = PDA)}

\* the accounts before any instruction: two funded wallets, their token
\* accounts for the assets X and Y, two rent-exempt zeroed record storages.
\* Alice's X account holds the deposit; Bob's wallet holds either a few lamports
\* or so many that the third, the second or the first balance reclaimed into it
\* overflows it.
InitialAccounts(deposit, funds) ==
  [k \in Keys |->
     CASE k = "alice" -> Account(SystemProgram, 3, WalletData)
       [] k = "bob" -> Account(SystemProgram, funds, WalletData)
       [] k = PDA -> Account(SystemProgram, 0, WalletData)
       [] k = "aliceX" -> Account(TokenProgram, 2, TokenData("X", "alice", deposit))
       [] k = "aliceY" -> Account(TokenProgram, 2, TokenData("Y", "alice", 0))
       [] k = "bobX" -> Account(TokenProgram, 2, TokenData("X", "bob", 0))
       [] k = "bobY" -> Account(TokenProgram, 2, TokenData("Y", "bob", 1))
       [] OTHER -> Account(EscrowProgram, 2, ZeroEscrowData)]

Init ==
  /\ \E deposit \in {0, 1}, funds \in {3, U64Max - 5, U64Max - 3, U64Max - 1} :
       /\ deposit = 0 \/ funds \in {3, U64Max - 5}
       /\ accounts = InitialAccounts(deposit, funds)
  /\ pre = accounts
  /\ last = [op |-> "none", res |-> "Ok", a |-> [escrow |-> ZeroKey]]
  /\ closes = [e \in EscrowAccounts |-> 0]
  /\ input = <<>>
  /\ instruction = unpack(input)

\* the host runtime keeps an instruction's writes only when it returns Ok
Commit(r, acc) == IF r.res = "Ok" THEN r.acc ELSE acc

\* A failed instruction leaves the ledger as it was, where every instruction is
\* already submitted from; instructions are submitted from committed ledgers.
Committed == last.res = "Ok"

Submit(op, a, r) ==
  /\ Committed
  /\ accounts' = Commit(r, accounts)
  /\ pre' = accounts
  /\ last' = [op |-> op, res |-> r.res, a |-> a]
  /\ UNCHANGED <<input, instruction>>

InitEscrow ==
  \E a \in InitEscrowArgs :
    /\ Submit("InitEscrow", a, process_init_escrow(accounts, a))
    /\ UNCHANGED closes

\* number of Exchange/Cancel instructions that returned Ok on a record storage
Closed(c, e) == [c EXCEPT ![e] = IF @ < 2 THEN @ + 1 ELSE @]

Exchange ==
  \E a \in ExchangeArgs :
    LET r == process_exchange(accounts, a)
    IN /\ Submit("Exchange", a, r)
       /\ closes' = IF r.res = "Ok" THEN Closed(closes, a.escrow) ELSE closes

Cancel ==
  \E a \in CancelArgs :
    LET r == process_cancel(accounts, a)
    IN /\ Submit("Cancel", a, r)
       /\ closes' = IF r.res = "Ok" THEN Closed(closes, a.escrow) ELSE closes

Next == InitEscrow \/ Exchange \/ Cancel

Spec == Init /\ [][Next]_vars

\* ------------------------------------------------------------- forged record
\* An account another program owns, holding bytes its owner chose: they decode
\* as an initialized record that names Bob as initializer, Alice's X token
\* account as custody account and Bob's Y token account as payout account.  The
\* handlers take the escrow account from the account list as it comes.
OtherProgram == "other_program"
Forged == "forged"
ForgedRecords ==
  {EscrowData(TRUE, "bob", temp, receive, amount) :
     temp \in {"aliceX"}, receive \in {"bobY"}, amount \in Amounts}

ForgedInit ==
  /\ \E record \in ForgedRecords :
       accounts = [k \in Keys \cup {Forged} |->
                     IF k = Forged THEN Account(OtherProgram, 2, record)
                     ELSE InitialAccounts(1, 3)[k]]
  /\ pre = accounts
  /\ last = [op |-> "none", res |-> "Ok", a |-> [escrow |-> ZeroKey]]
  /\ closes = [e \in EscrowAccounts \cup {Forged} |-> 0]
  /\ input = <<>>
  /\ instruction = unpack(input)

\* Exchange and Cancel with the forged account supplied as the escrow account
ForgedExchange ==
  \E a \in ExchangeArgs :
    LET b == [a EXCEPT !.escrow = Forged]
        r == process_exchange(accounts, b)
    IN /\ a.escrow = "esc1"
       /\ Submit("Exchange", b, r)
       /\ closes' = IF r.res = "Ok" THEN Closed(closes, Forged) ELSE closes

ForgedCancel ==
  \E a \in CancelArgs :
    LET b == [a EXCEPT !.escrow = Forged]
        r == process_cancel(accounts, b)
    IN /\ a.escrow = "esc1"
       /\ Submit("Cancel", b, r)
       /\ closes' = IF r.res = "Ok" THEN Closed(closes, Forged) ELSE closes

ForgedNext == InitEscrow \/ Exchange \/ Cancel \/ ForgedExchange \/ ForgedCancel

ForgedSpec == ForgedInit /\ [][ForgedNext]_vars

\* ------------------------------------------------------------- one account, two roles
\* An escrow account or a token account has a keypair like a wallet, so it can
\* sign an InitEscrow as account 0 and hold a token account; the record then
\* names it as initializer, and Exchange and Cancel take it as main account.
\* Here Alice's X token account is held by the record storage esc1 and Bob's by
\* his Y token account.
AliasSigners == {"esc1", "bobY"}

AliasInit ==
  /\ \E deposit \in {0, 1} :
       accounts = [InitialAccounts(deposit, 3) EXCEPT !["aliceX"].data.owner = "esc1",
                                                      !["bobX"].data.owner = "bobY"]
  /\ pre = accounts
  /\ last = [op |-> "none", res |-> "Ok", a |-> [escrow |-> ZeroKey]]
  /\ closes = [e \in EscrowAccounts |-> 0]
  /\ input = <<>>
  /\ instruction = unpack(input)

\* the instructions with an escrow account or a token account as account 0 of
\* InitEscrow, as initializer's main account of Exchange and of Cancel
AliasInitEscrow ==
  \E a \in InitEscrowArgs, k \in AliasSigners :
    LET b == [a EXCEPT !.initializer = k]
    IN /\ a.initializer = "alice"
       /\ Submit("InitEscrow", b, process_init_escrow(accounts, b))
       /\ UNCHANGED closes

AliasExchange ==
  \E a \in ExchangeArgs, k \in AliasSigners :
    LET b == [a EXCEPT !.initializers_main = k]
        r == process_exchange(accounts, b)
    IN /\ a.initializers_main = "alice"
       /\ Submit("Exchange", b, r)
       /\ closes' = IF r.res = "Ok" THEN Closed(closes, b.escrow) ELSE closes

AliasCancel ==
  \E a \in CancelArgs, k \in AliasSigners :
    LET b == [a EXCEPT !.initializers_main = k]
        r == process_cancel(accounts, b)
    IN /\ a.initializers_main = "alice"
       /\ Submit("Cancel", b, r)
       /\ closes' = IF r.res = "Ok" THEN Closed(closes, b.escrow) ELSE closes

AliasNext == InitEscrow \/ Exchange \/ Cancel \/ AliasInitEscrow \/ AliasExchange \/ AliasCancel

AliasSpec == AliasInit /\ [][AliasNext]_vars

\* ------------------------------------------------------------- decoding
\* the bytes a caller puts in instruction data: any tag byte, then bytes that
\* are zero, one or the largest byte
TagBytes == 0..MaxByte
DataBytes == {0, 1, MaxByte}

DecodeInit ==
  /\ accounts = InitialAccounts(0, 3)
  /\ pre = accounts
  /\ last = [op |-> "none", res |-> "Ok", a |-> [escrow |-> ZeroKey]]
  /\ closes = [e \in EscrowAccounts |-> 0]
  /\ input = <<>>
  /\ instruction = unpack(input)

\* the instruction data grows by one byte and is decoded
Decode ==
  /\ Len(input) < MaxInputLen
  /\ \E b \in (IF input = <<>> THEN TagBytes ELSE DataBytes) :
       /\ input' = Append(input, b)
       /\ instruction' = unpack(Append(input, b))
  /\ UNCHANGED <<accounts, pre, last, closes>>

DecodeNext == Decode

DecodeSpec == DecodeInit /\ [][DecodeNext]_vars

\* ------------------------------------------------------------- observations
\* the record held by storage e in ledger acc is Active
IsActive(acc, e) == acc[e].data.kind = "escrow" /\ acc[e].data.is_initialized
\* the record storage e and its record are gone from ledger acc
IsDeleted(acc, e) == acc[e].data.kind = "empty" /\ acc[e].lamports = 0
\* token balance of account k in ledger acc (0 once the account is gone)
Balance(acc, k) == IF acc[k].data.kind = "token" THEN acc[k].data.amount ELSE 0
Succeeded(op) == last.op = op /\ last.res = "Ok"
Failed(op) == last.op = op /\ last.res /= "Ok"

\* C1: a Cancel succeeds only when its signer (account 0) is the initializer
\* stored in the record; a Cancel signed by anyone else fails and changes nothing.
C1_OnlyInitializerCancels ==
  /\ Succeeded("Cancel") =>
       last.a.initializer = pre[last.a.escrow].data.initializer_pubkey
  /\ (last.op = "Cancel" /\ IsActive(pre, last.a.escrow)
      /\ last.a.initializer /= pre[last.a.escrow].data.initializer_pubkey)
       => (last.res /= "Ok" /\ accounts = pre)

\* C2: at most one Exchange or Cancel succeeds per record storage, and an
\* Exchange or Cancel on storage whose record was deleted fails and changes no
\* balance.
C2_AtMostOnceSettlement ==
  /\ \A e \in EscrowAccounts : closes[e] <= 1
  /\ (last.op \in {"Exchange", "Cancel"} /\ IsDeleted(pre, last.a.escrow))
       => (last.res /= "Ok" /\ accounts = pre)
C2_Witness ==
  /\ last.op \in {"Exchange", "Cancel"}
  /\ closes[last.a.escrow] = 1
  /\ IsDeleted(pre, last.a.escrow)
  /\ last.res /= "Ok"

\* C5: whenever a record is Active, the custody account it references is a
\* token account whose authority is the program-derived identity.
C5_CustodyHeldByPDA ==
  \A e \in EscrowAccounts :
    IsActive(accounts, e) =>
      LET c == accounts[e].data.temp_token_account_pubkey
      IN accounts[c].data.kind = "token" /\ accounts[c].data.owner = PDA

\* the record an Exchange or Cancel found in its storage before it ran
PreRecord == pre[last.a.escrow].data

\* C3 as stated: after every successful Exchange the taker's source holds
\* expected_amount fewer, the payout account expected_amount more, the taker's
\* destination the whole custody balance more; custody and record are gone and
\* the main account holds the custody's and the storage's lamports more.
SettleEffects ==
  LET a == last.a
  IN /\ Balance(accounts, a.takers_sending)
          = Balance(pre, a.takers_sending) - PreRecord.expected_amount
     /\ Balance(accounts, a.initializers_token_to_receive)
          = Balance(pre, a.initializers_token_to_receive) + PreRecord.expected_amount
     /\ Balance(accounts, a.takers_token_to_receive)
          = Balance(pre, a.takers_token_to_receive) + Balance(pre, a.pda_temp_token)
     /\ accounts[a.pda_temp_token].data.kind = "tokenZero"
     /\ accounts[a.pda_temp_token].lamports = 0
     /\ IsDeleted(accounts, a.escrow)
     /\ accounts[a.initializers_main].lamports
          = pre[a.initializers_main].lamports + pre[a.pda_temp_token].lamports
            + pre[a.escrow].lamports
C3_SettleEffects_AsStated == Succeeded("Exchange") => SettleEffects

\* the accounts an Exchange names in different roles are different accounts
SettleRolesDistinct ==
  LET a == last.a
  IN /\ Cardinality({a.takers_sending, a.takers_token_to_receive, a.pda_temp_token,
                     a.initializers_token_to_receive}) = 4
     /\ a.initializers_main /= a.escrow

\* C3 amended: the effects hold after every successful Exchange whose source,
\* destination, custody and payout accounts are pairwise distinct and whose
\* main account is not the record storage.
C3_SettleEffects == (Succeeded("Exchange") /\ SettleRolesDistinct) => SettleEffects
C3_Witness ==
  /\ Succeeded("Exchange") /\ SettleRolesDistinct
  /\ PreRecord.expected_amount > 0
  /\ Balance(pre, last.a.pda_temp_token) > 0

\* C4: a failed instruction leaves every account as it was, and no ledger shows
\* a record written without the custody authority reassigned, or a taker who
\* paid without the custody balance delivered and the record deleted.
C4_FailureAtomicity ==
  /\ last.res /= "Ok" => accounts = pre
  /\ \A e \in EscrowAccounts :
       (IsActive(accounts, e) /\ ~IsActive(pre, e)) =>
         LET c == accounts[e].data.temp_token_account_pubkey
         IN accounts[c].data.kind = "token" /\ accounts[c].data.owner = PDA
  /\ (last.op = "Exchange"
      /\ Balance(accounts, last.a.takers_sending) /= Balance(pre, last.a.takers_sending))
       => (/\ IsDeleted(accounts, last.a.escrow)
           /\ accounts[last.a.pda_temp_token].data.kind = "tokenZero"
           /\ Balance(accounts, last.a.takers_token_to_receive)
                = Balance(pre, last.a.takers_token_to_receive)
                  + Balance(pre, last.a.pda_temp_token))
\* an Exchange that failed in its last sub-call, after the taker's payment and
\* the custody transfer were made on the working copy
C4_Witness ==
  /\ last.op = "Exchange" /\ last.res = "NonNativeHasBalance"
  /\ PreRecord.expected_amount > 0

\* C6: after a successful InitEscrow the record is initialized and holds the
\* signer, the custody account, the payout account and the amount supplied, and
\* the custody account's authority is no longer the initializer.
C6_OpenWritesRecord ==
  Succeeded("InitEscrow") =>
    LET a == last.a
        r == accounts[a.escrow].data
    IN /\ r.kind = "escrow" /\ r.is_initialized
       /\ r.initializer_pubkey = a.initializer
       /\ r.temp_token_account_pubkey = a.temp_token
       /\ r.initializer_token_to_receive_account_pubkey = a.token_to_receive
       /\ r.expected_amount = a.amount
       /\ accounts[a.temp_token].data.owner /= a.initializer
       /\ pre[a.temp_token].data.owner = a.initializer
C6_Witness ==
  /\ Succeeded("InitEscrow") /\ last.a.amount > 0
  /\ last.a.temp_token /= last.a.token_to_receive

\* an InitEscrow that passes every check made before the record is decoded
OpenOtherwiseValid ==
  LET a == last.a
  IN /\ a.is_signer
     /\ pre[a.token_to_receive].owner = TokenProgram
     /\ pre[a.token_to_receive].data.kind = "token"
     /\ is_exempt(pre[a.escrow].lamports, DataLen(pre[a.escrow].data))

\* C7: an otherwise valid InitEscrow on storage whose record is Active fails
\* with AccountAlreadyInitialized and leaves the record as it was.
C7_OpenTwiceRejected ==
  (last.op = "InitEscrow" /\ IsActive(pre, last.a.escrow) /\ OpenOtherwiseValid)
    => (last.res = "AccountAlreadyInitialized" /\ accounts = pre)
C7_Witness ==
  /\ last.op = "InitEscrow" /\ IsActive(pre, last.a.escrow) /\ OpenOtherwiseValid
  /\ pre[last.a.temp_token].data.kind = "token"
  /\ pre[last.a.temp_token].data.owner = last.a.initializer

\* C8: a signed Exchange whose custody account decodes and whose declared
\* amount differs from the custody balance fails with ExpectedAmountMismatch,
\* and nothing changes.
C8_AmountMismatchRejected ==
  (last.op = "Exchange" /\ last.a.is_signer
   /\ pre[last.a.pda_temp_token].data.kind = "token"
   /\ last.a.amount /= pre[last.a.pda_temp_token].data.amount)
    => (last.res = "ExpectedAmountMismatch" /\ accounts = pre)
\* off by one unit, on an Exchange that names the Active record's own accounts
C8_Witness ==
  /\ last.op = "Exchange" /\ last.a.is_signer
  /\ pre[last.a.pda_temp_token].data.kind = "token"
  /\ last.a.amount = pre[last.a.pda_temp_token].data.amount + 1
  /\ IsActive(pre, last.a.escrow)
  /\ exchange_matches(PreRecord, last.a) = "Ok"

\* a signed Exchange that reaches the comparison with the Active record
ExchangeReachesRecord ==
  /\ last.op = "Exchange" /\ last.a.is_signer
  /\ pre[last.a.pda_temp_token].data.kind = "token"
  /\ last.a.amount = pre[last.a.pda_temp_token].data.amount
  /\ IsActive(pre, last.a.escrow)

\* C9: an Exchange that reaches the comparison with an Active record and names
\* a custody, main or payout account other than the one stored fails with
\* InvalidAccountData, and nothing changes.
C9_ReferenceMismatchRejected ==
  (/\ ExchangeReachesRecord
   /\ \/ last.a.pda_temp_token /= PreRecord.temp_token_account_pubkey
      \/ last.a.initializers_main /= PreRecord.initializer_pubkey
      \/ last.a.initializers_token_to_receive
           /= PreRecord.initializer_token_to_receive_account_pubkey)
    => (last.res = "InvalidAccountData" /\ accounts = pre)
\* only the main account is substituted
C9_Witness ==
  /\ ExchangeReachesRecord
  /\ last.a.pda_temp_token = PreRecord.temp_token_account_pubkey
  /\ last.a.initializers_main /= PreRecord.initializer_pubkey
  /\ last.a.initializers_token_to_receive
       = PreRecord.initializer_token_to_receive_account_pubkey

\* the accounts of the parties other than the record's initializer
TakerSide(initializer) ==
  {k \in Keys : \/ k \in Wallets \ {initializer}
                \/ /\ pre[k].data.kind = "token"
                   /\ pre[k].data.owner \in Wallets \ {initializer}}

\* C10: a successful Cancel moves no token, credits the main account with the
\* custody account's and the record storage's lamports, deletes the record and
\* leaves every taker-side account as it was.
C10_CancelEffects ==
  Succeeded("Cancel") =>
    LET a == last.a
    IN /\ \A k \in TokenAccounts \ {a.pda_temp_token, a.initializer_token} :
            accounts[k] = pre[k]
       /\ Balance(pre, a.pda_temp_token) = 0
       /\ accounts[a.pda_temp_token].lamports = 0
       /\ accounts[a.initializers_main].lamports
            = pre[a.initializers_main].lamports + pre[a.pda_temp_token].lamports
              + pre[a.escrow].lamports + pre[a.initializer_token].lamports
       /\ IsDeleted(accounts, a.escrow)
       /\ \A k \in TakerSide(PreRecord.initializer_pubkey) : accounts[k] = pre[k]

\* a Cancel that passes the checks made before the record is decoded
CancelReachesRecord ==
  /\ last.op = "Cancel" /\ last.a.is_signer
  /\ pre[last.a.initializer_token].owner = TokenProgram

\* C11: a Cancel that reaches the decoding of a record storage whose record is
\* not Active, because it was never opened or because an Exchange or Cancel
\* deleted it, fails with UninitializedAccount.
C11_CancelOnDeletedUninitialized ==
  (CancelReachesRecord /\ ~IsActive(pre, last.a.escrow))
    => last.res = "UninitializedAccount"

\* C12: a record becomes Active only by a successful InitEscrow on storage that
\* was never opened, and stops being Active only by a successful Exchange or
\* Cancel on its storage, each at most once per storage; a failed instruction
\* changes no record's state, and storage whose record was deleted is never
\* Active again.
C12_RecordLifecycle ==
  \A e \in EscrowAccounts :
    /\ (IsActive(accounts, e) /\ ~IsActive(pre, e))
         => (Succeeded("InitEscrow") /\ last.a.escrow = e /\ closes[e] = 0
             /\ pre[e].data = ZeroEscrowData)
    /\ (~IsActive(accounts, e) /\ IsActive(pre, e))
         => (last.op \in {"Exchange", "Cancel"} /\ last.res = "Ok"
             /\ last.a.escrow = e /\ closes[e] = 1)
    /\ (last.res = "Ok" /\ last.op /= "none" /\ last.a.escrow = e)
         => IsActive(accounts, e) /= IsActive(pre, e)
    /\ last.res /= "Ok" => IsActive(accounts, e) = IsActive(pre, e)
    /\ closes[e] >= 1 => (~IsActive(accounts, e) /\ closes[e] = 1)
\* an InitEscrow, valid in its signer and payout account and naming a custody
\* account its signer holds, on storage whose record was deleted
C12_Witness ==
  /\ last.op = "InitEscrow" /\ last.a.is_signer
  /\ closes[last.a.escrow] = 1
  /\ pre[last.a.token_to_receive].owner = TokenProgram
  /\ pre[last.a.token_to_receive].data.kind = "token"
  /\ pre[last.a.temp_token].data.kind = "token"
  /\ pre[last.a.temp_token].data.owner = last.a.initializer
  /\ last.res /= "Ok"

\* C13: a record that is Active before and after an instruction, successful or
\* failed, holds the same custody account, initializer and payout account (and
\* the same expected amount) after it as before it.
C13_ActiveRecordImmutable ==
  \A e \in EscrowAccounts :
    (IsActive(pre, e) /\ IsActive(accounts, e)) =>
      /\ accounts[e].data.temp_token_account_pubkey
           = pre[e].data.temp_token_account_pubkey
      /\ accounts[e].data.initializer_pubkey = pre[e].data.initializer_pubkey
      /\ accounts[e].data.initializer_token_to_receive_account_pubkey
           = pre[e].data.initializer_token_to_receive_account_pubkey
      /\ accounts[e].data.expected_amount = pre[e].data.expected_amount
\* an otherwise valid InitEscrow names an Active record's storage with another
\* initializer and another custody account, which that initializer holds
C13_Witness ==
  /\ last.op = "InitEscrow" /\ IsActive(pre, last.a.escrow) /\ OpenOtherwiseValid
  /\ last.a.initializer /= PreRecord.initializer_pubkey
  /\ last.a.temp_token /= PreRecord.temp_token_account_pubkey
  /\ pre[last.a.temp_token].data.kind = "token"
  /\ pre[last.a.temp_token].data.owner = last.a.initializer

\* a Cancel signed by the Active record's initializer that names the record's
\* custody, main and payout accounts and the derived identity, the custody
\* account being held by the derived identity, the payout account another
\* token account, and the main account able to take the reclaimed lamports
CancelByInitializer ==
  LET a == last.a
  IN /\ last.op = "Cancel" /\ a.is_signer
     /\ IsActive(pre, a.escrow)
     /\ a.initializer = PreRecord.initializer_pubkey
     /\ cancel_matches(PreRecord, a) = "Ok"
     /\ a.pda_account = PDA
     /\ pre[a.pda_temp_token].owner = TokenProgram
     /\ pre[a.pda_temp_token].data.kind = "token"
     /\ pre[a.pda_temp_token].data.owner = PDA
     /\ pre[a.initializer_token].owner = TokenProgram
     /\ pre[a.initializer_token].data.kind = "token"
     /\ a.initializer_token /= a.pda_temp_token
     /\ pre[a.initializers_main].lamports + pre[a.initializer_token].lamports
          + pre[a.pda_temp_token].lamports + pre[a.escrow].lamports <= U64Max

\* C14: whatever the custody account's token balance, a Cancel signed by the
\* Active record's initializer with the record's accounts returns Ok and
\* leaves the record not Active.
C14_CancelAlwaysAvailable ==
  CancelByInitializer => (last.res = "Ok" /\ ~IsActive(accounts, last.a.escrow))

\* the same Cancel when the custody account holds no tokens
CancelOfEmptyCustody ==
  (CancelByInitializer /\ Balance(pre, last.a.pda_temp_token) = 0)
    => (last.res = "Ok" /\ ~IsActive(accounts, last.a.escrow))

\* the little-endian value of the eight bytes that follow the tag
AmountValue ==
  LET B == MaxByte + 1
  IN input[2] + input[3] * B + input[4] * B^2 + input[5] * B^3 + input[6] * B^4
       + input[7] * B^5 + input[8] * B^6 + input[9] * B^7
\* the instruction a tag byte stands for
TagName == IF input[1] = 0 THEN "InitEscrow" ELSE "Exchange"

\* what C15 says of every input but one with tag 0 or 1 and more than eight
\* bytes after it: empty input, an unrecognized tag, and tag 0 or 1 with fewer
\* than eight bytes after it fail with InvalidInstruction; tag 2 is Cancel
\* whatever follows; tag 0 or 1 with exactly eight bytes after it is InitEscrow
\* or Exchange with their little-endian value.
DecodeCommon ==
  /\ input = <<>> => instruction = [err |-> "InvalidInstruction"]
  /\ (input /= <<>> /\ input[1] \notin {0, 1, 2})
       => instruction = [err |-> "InvalidInstruction"]
  /\ (input /= <<>> /\ input[1] = 2)
       => instruction = [err |-> "Ok", v |-> [tag |-> "Cancel"]]
  /\ (input /= <<>> /\ input[1] \in {0, 1} /\ Len(input) < 9)
       => instruction = [err |-> "InvalidInstruction"]
  /\ (input /= <<>> /\ input[1] \in {0, 1} /\ Len(input) = 9)
       => instruction = [err |-> "Ok", v |-> [tag |-> TagName, amount |-> AmountValue]]

\* C15 as stated: moreover tag 0 or 1 yields InitEscrow or Exchange only when
\* exactly eight bytes follow the tag.
C15_Decode_AsStated ==
  /\ DecodeCommon
  /\ (instruction.err = "Ok" /\ instruction.v.tag \in {"InitEscrow", "Exchange"})
       => Len(input) = 9

\* C15 amended: tag 0 or 1 yields InitEscrow or Exchange exactly when at least
\* eight bytes follow the tag, the amount being the little-endian value of the
\* first eight of them; the bytes after the eighth are ignored.
C15_Decode ==
  /\ DecodeCommon
  /\ (input /= <<>> /\ input[1] \in {0, 1} /\ Len(input) > 9)
       => instruction = [err |-> "Ok", v |-> [tag |-> TagName, amount |-> AmountValue]]
  /\ (instruction.err = "Ok" /\ instruction.v.tag \in {"InitEscrow", "Exchange"})
       => (Len(input) >= 9 /\ input[1] = (IF instruction.v.tag = "InitEscrow" THEN 0 ELSE 1))
\* an Exchange decoded from nine bytes after the tag, with unequal low and high
\* amount bytes and a non-zero ninth byte
C15_Witness ==
  /\ Len(input) = 10 /\ input[1] = 1
  /\ input[2] = 1 /\ input[9] = MaxByte /\ input[10] = 1
  /\ instruction.err = "Ok" /\ instruction.v.tag = "Exchange"

\* the handler's own result on the ledger it was given, before the host drops
\* the writes of a failed instruction
Handled ==
  CASE last.op = "Exchange" -> process_exchange(pre, last.a)
    [] last.op = "Cancel" -> process_cancel(pre, last.a)
    [] last.op = "InitEscrow" -> process_init_escrow(pre, last.a)
    [] OTHER -> Result("Ok", pre)

\* a Cancel that reaches the reclaiming of account 1's lamports
CancelReachesReclaim ==
  /\ CancelReachesRecord /\ IsActive(pre, last.a.escrow)
  /\ pre[last.a.pda_temp_token].data.kind = "token"
  /\ cancel_matches(PreRecord, last.a) = "Ok"

\* C16: no account ever holds more than u64::MAX lamports; an Exchange or
\* Cancel that returns Ok leaves the main account with exactly the sum of its
\* lamports and the reclaimed ones; a Cancel whose main account cannot take
\* account 1's lamports fails with AmountOverflow; and a handler that returns
\* AmountOverflow has left the main account and the source of the failed
\* addition (account 1, or the record storage and its record) as they were.
C16_CheckedReclaim ==
  LET a == last.a
  IN /\ \A k \in Keys : accounts[k].lamports \in 0..U64Max
     /\ Succeeded("Exchange") =>
          accounts[a.initializers_main].lamports
            = pre[a.initializers_main].lamports + pre[a.pda_temp_token].lamports
              + pre[a.escrow].lamports
     /\ Succeeded("Cancel") =>
          accounts[a.initializers_main].lamports
            = pre[a.initializers_main].lamports + pre[a.initializer_token].lamports
              + pre[a.pda_temp_token].lamports + pre[a.escrow].lamports
     /\ (CancelReachesReclaim
         /\ pre[a.initializers_main].lamports + pre[a.initializer_token].lamports > U64Max)
          => (last.res = "AmountOverflow" /\ Handled.acc = pre)
     /\ last.res = "AmountOverflow" =>
          /\ last.op \in {"Exchange", "Cancel"}
          /\ accounts = pre
          /\ Handled.acc[a.escrow] = pre[a.escrow]
          /\ \/ /\ last.op = "Cancel" /\ Handled.acc = pre
                /\ pre[a.initializers_main].lamports
                     + pre[a.initializer_token].lamports > U64Max
             \/ /\ Handled.acc[a.pda_temp_token].lamports = 0
                /\ Handled.acc[a.initializers_main].lamports
                     = pre[a.initializers_main].lamports + pre[a.pda_temp_token].lamports
                       + (IF last.op = "Cancel"
                          THEN pre[a.initializer_token].lamports ELSE 0)
                /\ Handled.acc[a.initializers_main].lamports
                     + pre[a.escrow].lamports > U64Max
\* an Exchange whose main account took the custody account's lamports and
\* cannot take the record storage's
C16_Witness ==
  /\ last.op = "Exchange" /\ last.res = "AmountOverflow"
  /\ Handled.acc[last.a.pda_temp_token].lamports = 0
  /\ pre[last.a.escrow].lamports > 0
\* a Cancel whose main account cannot take account 1's lamports
CancelOverflowsAtFirstReclaim ==
  /\ CancelReachesReclaim /\ last.res = "AmountOverflow"
  /\ Handled.acc = pre

\* C17: an instruction naming one record storage neither takes tokens out of
\* nor closes or clears the custody account referenced by another storage's
\* Active record: that account is a token account after the instruction as
\* before it, with the same lamports and no fewer tokens.
C17_CrossRecordIsolation ==
  \A e \in EscrowAccounts \ {last.a.escrow} :
    (last.op /= "none" /\ IsActive(pre, e) /\ IsActive(pre, last.a.escrow)) =>
      LET c == pre[e].data.temp_token_account_pubkey
      IN (c /= PreRecord.temp_token_account_pubkey /\ pre[c].data.kind = "token")
           => /\ accounts[c].data.kind = "token"
              /\ accounts[c].lamports = pre[c].lamports
              /\ Balance(accounts, c) >= Balance(pre, c)

\* C18: an Exchange or Cancel whose escrow account is not owned by this program
\* does not return Ok, and no token leaves a custody account by it.
C18_OnlyOwnRecords ==
  (last.op \in {"Exchange", "Cancel"} /\ pre[last.a.escrow].owner /= EscrowProgram)
    => /\ last.res /= "Ok"
       /\ \A k \in TokenAccounts :
            pre[k].data.kind = "token" /\ pre[k].data.owner = PDA
              => Balance(accounts, k) = Balance(pre, k)

\* the lamports held by the accounts of a set, together
RECURSIVE TotalLamports(_, _)
TotalLamports(acc, keys) ==
  IF keys = {} THEN 0
  ELSE LET k == CHOOSE x \in keys : TRUE
       IN acc[k].lamports + TotalLamports(acc, keys \ {k})

\* C19: after every instruction that returns Ok the accounts hold together as
\* many lamports as before it, also when one account is given in two roles.
C19_LamportConservation ==
  last.res = "Ok" => TotalLamports(accounts, Keys) = TotalLamports(pre, Keys)

\* the tokens of a mint held by the token accounts, together
RECURSIVE TotalTokens(_, _, _)
TotalTokens(acc, mint, keys) ==
  IF keys = {} THEN 0
  ELSE LET k == CHOOSE x \in keys : TRUE
       IN (IF acc[k].data.kind = "token" /\ acc[k].data.mint = mint
           THEN acc[k].data.amount ELSE 0)
          + TotalTokens(acc, mint, keys \ {k})

\* C20: after every instruction that returns Ok the token accounts hold
\* together as many tokens of each mint as before it.
C20_TokenConservation ==
  last.res = "Ok" =>
    \A mint \in {"X", "Y"} :
      TotalTokens(accounts, mint, Keys) = TotalTokens(pre, mint, Keys)

====
